---- MODULE Spec2Model ----
(***************************************************************************)
(* The Coffee Corner - js/script.js                                        *)
(*                                                                         *)
(* A model of the notification component (showNotification), the contact   *)
(* form submit handler, the catering form submit handler and the gallery   *)
(* lightbox.                                                               *)
(*                                                                         *)
(* Text typed by the user is a sequence of one-character strings, so that  *)
(* trim(), the regular expressions and parseInt() are computed character   *)
(* by character.  Values of <select> elements are plain strings.  The      *)
(* bullet that starts every message of the error list is not ASCII and is  *)
(* left out of the message constants.                                      *)
(*                                                                         *)
(* Time is counted in milliseconds.  A timer fires at the moment it is     *)
(* due: time does not pass a due timer, and the latency of the event loop  *)
(* is not modelled.  Timers due at the same moment fire in any order.      *)
(*                                                                         *)
(* last, lastRemoved, lastAuto and domError describe the step just taken:  *)
(* last holds the locals of a submit handler in the state that handler     *)
(* produced and is cleared when the user edits a field.  lastNav holds the *)
(* two most recent operations of the gallery lightbox.                     *)
(***************************************************************************)
EXTENDS Integers, Sequences, FiniteSets

VARIABLES
    page,             \* the page of the site the document was loaded from
    contact,          \* field values of #contactForm
    catering,         \* field values of .catering-form
    tz,               \* offset of the local time zone from UTC, in hours
    href,             \* window.location.href
    last,             \* locals of the submit handler that ran last
    created,          \* how many notifications the document has created
    clicked,          \* how many times the user has clicked a close button
    notifs,           \* the notifications created and still referenced
    containers,       \* how many .notification-container elements body has
    domError,         \* the last step threw NotFoundError out of removeChild
    lastRemoved,      \* the notification the last step took out of the document
    lastAuto,         \* what the auto-dismiss timer did, if the last step ran one
    galleryLength,    \* imagesArray.length
    currentImageIndex,
    lightbox,         \* style.display of the lightbox and the image it shows
    overflow,         \* document.body.style.overflow
    lastNav           \* the two most recent lightbox operations

galleryVars == <<galleryLength, currentImageIndex, lightbox, overflow, lastNav>>

vars ==
    <<page, contact, catering, tz, href, last, created, clicked, notifs,
      containers, domError, lastRemoved, lastAuto, galleryLength,
      currentImageIndex, lightbox, overflow, lastNav>>

(***************************************************************************)
(* Bounds of the model.                                                    *)
(***************************************************************************)
MaxNotifs == 2
MaxClicks == 2
TickStep == 5000
MaxAge == 6000
MaxImages == 5

(***************************************************************************)
(* Program constants.                                                      *)
(***************************************************************************)
ExitGrace == 300
DefaultDuration == 5000
CateringDuration == 10000
ErrorDuration == 0
MinNameLength == 2
MinMessageLength == 10
PhoneMinLength == 10
PhoneMaxLength == 15
MinGuests == 10
MaxGuests == 500
WeddingCost == 250
CorporateCost == 180
DefaultCost == 150
AdvanceDays == 7
HoursPerDay == 24

(***************************************************************************)
(* Strings.                                                                *)
(***************************************************************************)
Digits == <<"0", "1", "2", "3", "4", "5", "6", "7", "8", "9">>

IsDigit(c) == \E i \in 1..10 : Digits[i] = c

DigitVal(c) == (CHOOSE i \in 1..10 : Digits[i] = c) - 1

\* \s of a JavaScript regular expression, the characters trim() strips and
\* the characters parseInt() skips: space, tab, line feed, carriage return,
\* form feed and vertical tab (VerticalTab holds the character itself, for
\* want of an escape).  The white space outside ASCII (U+00A0, U+FEFF, U+2028,
\* U+2029, the space separators) cannot be written in a string here and is
\* not among the characters of the model.
VerticalTab == ""

IsSpace(c) == c \in {" ", "\t", "\n", "\r", "\f", VerticalTab}

RECURSIVE TrimStart(_)
TrimStart(s) ==
    IF s # <<>> /\ IsSpace(Head(s)) THEN TrimStart(Tail(s)) ELSE s

RECURSIVE TrimEnd(_)
TrimEnd(s) ==
    IF s # <<>> /\ IsSpace(s[Len(s)])
    THEN TrimEnd(SubSeq(s, 1, Len(s) - 1))
    ELSE s

\* String.prototype.trim
Trim(s) == TrimEnd(TrimStart(s))

\* (element || {}).value?.trim() || ''
TrimmedValue(v) == Trim(v)

\* [^\s@]
EmailChar(c) == ~IsSpace(c) /\ c # "@"

\* [^\s@]+ over s[a..b]
EmailRun(s, a, b) == a <= b /\ \A k \in a..b : EmailChar(s[k])

\* /^[^\s@]+@[^\s@]+\.[^\s@]+$/.test(s)
EmailPatternTest(s) ==
    \E i \in 1..Len(s) : \E j \in 1..Len(s) :
        /\ i < j
        /\ s[i] = "@"
        /\ s[j] = "."
        /\ EmailRun(s, 1, i - 1)
        /\ EmailRun(s, i + 1, j - 1)
        /\ EmailRun(s, j + 1, Len(s))

\* [\d\s\-\(\)\+]
PhoneChar(c) == IsDigit(c) \/ IsSpace(c) \/ c \in {"-", "(", ")", "+"}

\* /^[\d\s\-\(\)\+]{10,15}$/.test(s)
PhonePatternTest(s) ==
    /\ Len(s) >= PhoneMinLength
    /\ Len(s) <= PhoneMaxLength
    /\ \A k \in 1..Len(s) : PhoneChar(s[k])

\* the value of the longest prefix of digits of s, and how long it is
RECURSIVE DigitPrefix(_, _, _)
DigitPrefix(s, acc, n) ==
    IF s # <<>> /\ IsDigit(Head(s))
    THEN DigitPrefix(Tail(s), acc * 10 + DigitVal(Head(s)), n + 1)
    ELSE <<acc, n>>

\* parseInt(v || '0', 10) || 0 : NaN, like 0, becomes 0
ParseGuests(v) ==
    LET t == TrimStart(IF v = <<>> THEN <<"0">> ELSE v)
        neg == t # <<>> /\ Head(t) = "-"
        signed == t # <<>> /\ Head(t) \in {"-", "+"}
        p == DigitPrefix(IF signed THEN Tail(t) ELSE t, 0, 0)
    IN  IF p[2] = 0 THEN 0 ELSE IF neg THEN 0 - p[1] ELSE p[1]

(***************************************************************************)
(* Messages of the error lists.                                            *)
(***************************************************************************)
ErrName == "Name must be at least 2 characters long"
ErrEmail == "Please enter a valid email address"
ErrContactPhone == "Phone number must be 10-15 digits"
ErrSubject == "Please select a subject for your message"
ErrMessage == "Message must be at least 10 characters long"
ErrCateringPhone == "Please enter a valid phone number (10-15 digits)"
ErrEventType == "Please select an event type"
ErrGuests == "Number of guests must be between 10 and 500"
ErrNoDate == "Please select a preferred date for your event"
ErrPastDate == "Please select a future date for your event"
AdviseAdvance == "We recommend booking at least 7 days in advance"

ErrorTitle == "Form Validation Error"
ContactSuccessTitle == "Message Ready to Send"
CateringSuccessTitle == "Catering Enquiry Confirmed"
Recipient == "info@coffeecorner.co.za"

(***************************************************************************)
(* The values the model types into the text fields.                        *)
(***************************************************************************)
Empty == <<>>
NameJo == <<"J", "o">>
NamePaddedJ == <<" ", "J", " ">>
NameAnna == <<"A", "n", "n", "a", " ", "S", "m", "i", "t", "h">>
EmailBad == <<"b", "a", "d">>
EmailNoDot == <<"a", "@", "b">>
EmailGood == <<"a", "@", "b", ".", "c", "o", "m">>
PhoneShort == <<"1", "2", "3">>
PhoneGood == <<"0", "8", "2", "1", "2", "3", "4", "5", "6", "7">>
MessageHi == <<"h", "i">>
MessagePaddedHi ==
    <<"h", "i", " ", "\t", "\n", "\r", "\f", VerticalTab, " ", " ", " ">>
MessageLong == <<"h", "e", "l", "l", "o", " ", "t", "h", "e", "r", "e">>
NotProvided == <<"N", "o", "t", " ", "p", "r", "o", "v", "i", "d", "e", "d">>

NameInputs == {Empty, NamePaddedJ, NameJo}
EmailInputs == {EmailBad, EmailNoDot, EmailGood}
PhoneInputs == {Empty, PhoneShort, PhoneGood}
MessageInputs == {MessageHi, MessagePaddedHi, MessageLong}
LocationInputs == {"", "gardens"}
SubjectInputs == {"", "general"}

(***************************************************************************)
(* showNotification                                                        *)
(***************************************************************************)
NotificationTypes == {"success", "error", "info"}

\* const {type = 'success', duration = 5000} = options
Destructure(options) ==
    [type |-> IF "type" \in DOMAIN options THEN options.type ELSE "success",
     duration |-> IF "duration" \in DOMAIN options
                  THEN options.duration ELSE DefaultDuration]

\* the timer scheduled whatever the type
AutoDismissAlways(type) == TRUE

\* if (type !== 'error') setTimeout(..., duration)
AutoDismisses(type) == type # "error"

\* the notification element with its close handler, its animation frame
\* request and its auto-dismiss timer
NewNotification(options) ==
    LET o == Destructure(options)
    IN  [type |-> o.type,
         duration |-> o.duration,
         age |-> 0,
         inDOM |-> TRUE,
         show |-> FALSE,
         raf |-> TRUE,
         auto |-> AutoDismisses(o.type),
         removals |-> <<>>,
         clicks |-> 0]

\* a lookup that never finds the container of the document
ContainerNeverFound(count) == TRUE

\* let container = document.querySelector('.notification-container');
\* if (!container)
ContainerMissing(count) == count = 0

\* one call of showNotification: the container is created when the document
\* has none, and the notification is appended to it
ShowNotification(options) ==
    /\ notifs' = Append(notifs, NewNotification(options))
    /\ created' = created + 1
    /\ containers' = IF ContainerMissing(containers) THEN containers + 1
                     ELSE containers

(***************************************************************************)
(* Validation.  A rule that fails pushes its message and clears isValid;   *)
(* an advisory pushes its message only.                                    *)
(***************************************************************************)
StartValidation == [isValid |-> TRUE, errors |-> <<>>]

\* validation that stops pushing messages after the first failure
FailFirstOnly(v, failed, msg) ==
    IF failed /\ v.isValid
    THEN [isValid |-> FALSE, errors |-> Append(v.errors, msg)]
    ELSE IF failed THEN [isValid |-> FALSE, errors |-> v.errors] ELSE v

\* if (failed) { errors.push(msg); isValid = false; }
Fail(v, failed, msg) ==
    IF failed THEN [isValid |-> FALSE, errors |-> Append(v.errors, msg)] ELSE v

\* if (cond) { errors.push(msg); }
Advise(v, cond, msg) ==
    IF cond THEN [isValid |-> v.isValid, errors |-> Append(v.errors, msg)] ELSE v

\* name.length <= 2
NameTooShortInclusive(name) == Len(name) <= MinNameLength

\* name.length < 2
NameTooShort(name) == Len(name) < MinNameLength

\* message.length < 10
MessageTooShort(message) == Len(message) < MinMessageLength

\* if (phone) { if (!phonePattern.test(phone)) ... }
ContactPhoneInvalid(phone) == phone # <<>> /\ ~PhonePatternTest(phone)

\* lines 126-132, on the values read at lines 119-124
ContactValidate(f) ==
    LET name == TrimmedValue(f.name)
        email == TrimmedValue(f.email)
        phone == TrimmedValue(f.phone)
        message == TrimmedValue(f.message)
        v1 == Fail(StartValidation, NameTooShort(name), ErrName)
        v2 == Fail(v1, ~EmailPatternTest(email), ErrEmail)
        v3 == Fail(v2, ContactPhoneInvalid(phone), ErrContactPhone)
        v4 == Fail(v3, f.subject = "", ErrSubject)
    IN  Fail(v4, MessageTooShort(message), ErrMessage)

(***************************************************************************)
(* The contact form.                                                       *)
(***************************************************************************)
\* the field values after contactForm.reset()
ContactDefaults ==
    [name |-> <<>>, email |-> <<>>, phone |-> <<>>, location |-> "",
     subject |-> "", message |-> <<>>]

\* a handler that does not reset the form
ContactResetKeeps(f) == f

\* contactForm.reset()
ContactReset(f) == ContactDefaults

NoSubmit == [form |-> "none"]

NoRemoval == [type |-> "none"]

PageHref == [scheme |-> "page"]

\* the options of both error notifications
ErrorRequest(errors) ==
    [title |-> ErrorTitle, type |-> "error", list |-> errors,
     duration |-> ErrorDuration]

\* lines 145-147, before encodeURIComponent
MailtoLink(f) ==
    LET phone == TrimmedValue(f.phone)
    IN  [scheme |-> "mailto",
         recipient |-> Recipient,
         subject |-> <<"Contact Form: ", f.subject>>,
         body |-> [name |-> TrimmedValue(f.name),
                   email |-> TrimmedValue(f.email),
                   phone |-> IF phone # <<>> THEN phone ELSE NotProvided,
                   location |-> IF f.location # "" THEN f.location
                                ELSE "Not specified",
                   subject |-> f.subject,
                   message |-> TrimmedValue(f.message)]]

ContactSuccessRequest(f) ==
    [title |-> ContactSuccessTitle, type |-> "success",
     message |-> TrimmedValue(f.name)]

\* a handler without the early return
ReturnsNever(isValid) == FALSE

\* if (!isValid) { showNotification(...); return; }
ReturnsEarly(isValid) == ~isValid

ContactInputs(field) ==
    CASE field = "name" -> NameInputs
      [] field = "email" -> EmailInputs
      [] field = "phone" -> PhoneInputs
      [] field = "location" -> LocationInputs
      [] field = "subject" -> SubjectInputs
      [] field = "message" -> MessageInputs

\* the user edits one field of the contact form
ContactInput ==
    /\ page = "contact"
    /\ \E field \in DOMAIN contact : \E value \in ContactInputs(field) :
           /\ contact[field] # value
           /\ contact' = [contact EXCEPT ![field] = value]
    /\ last' = NoSubmit
    /\ lastRemoved' = NoRemoval
    /\ UNCHANGED <<page, catering, tz, href, created, clicked, notifs,
                   containers, domError, lastAuto>>
    /\ UNCHANGED galleryVars

\* the submit handler of #contactForm, lines 117-157
ContactSubmit ==
    /\ page = "contact"
    /\ created < MaxNotifs
    /\ LET v == ContactValidate(contact)
       IN  IF ReturnsEarly(v.isValid)
           THEN /\ ShowNotification(ErrorRequest(v.errors))
                /\ last' = [form |-> "contact", isValid |-> v.isValid,
                            errors |-> v.errors, fields |-> contact,
                            request |-> ErrorRequest(v.errors),
                            dispatched |-> FALSE, hrefBefore |-> href]
                /\ UNCHANGED <<contact, href>>
           ELSE /\ href' = MailtoLink(contact)
                /\ ShowNotification(ContactSuccessRequest(contact))
                /\ contact' = ContactReset(contact)
                /\ last' = [form |-> "contact", isValid |-> v.isValid,
                            errors |-> v.errors, fields |-> contact,
                            request |-> ContactSuccessRequest(contact),
                            dispatched |-> TRUE, hrefBefore |-> href]
    /\ lastRemoved' = NoRemoval
    /\ UNCHANGED <<page, catering, tz, clicked, domError, lastAuto>>
    /\ UNCHANGED galleryVars

(***************************************************************************)
(* The catering form.  The date field holds <<>> when no date is chosen    *)
(* and <<d>> for the calendar day d days after today's local date.         *)
(***************************************************************************)
Guests5 == <<"5">>
Guests9 == <<"9">>
Guests10 == <<"1", "0">>
Guests100 == <<"1", "0", "0">>
Guests500 == <<"5", "0", "0">>
Guests501 == <<"5", "0", "1">>
GuestsWord == <<"a", "b", "c">>
GuestsNegative == <<"-", "2", "0">>

GuestsInputs ==
    {Empty, Guests5, Guests9, Guests10, Guests100, Guests500, Guests501,
     GuestsWord, GuestsNegative}
EventTypeInputs == {"", "wedding", "corporate", "birthday"}
DateInputs == {<<>>, <<0 - 1>>, <<0>>, <<6>>, <<7>>, <<30>>}
CateringNameInputs == {NamePaddedJ, NameAnna}
CateringEmailInputs == {EmailBad, EmailGood}
CateringPhoneInputs == {Empty, PhoneGood}
RequestInputs == {Empty, MessageHi}
TimeZones == {0 - 5, 0, 2}

\* the field values after cateringForm.reset()
CateringDefaults ==
    [name |-> <<>>, email |-> <<>>, phone |-> <<>>, eventType |-> "",
     guests |-> <<>>, date |-> <<>>, message |-> <<>>]

\* cateringForm.reset()
CateringReset(f) == CateringDefaults

\* the guests rule without its upper limit
GuestsTooFewOnly(guests) == guests = 0 \/ guests < MinGuests

\* !guests || guests < 10 || guests > 500
GuestsInvalid(guests) ==
    guests = 0 \/ guests < MinGuests \/ guests > MaxGuests

\* selectedDate - today, in hours: new Date('YYYY-MM-DD') is midnight UTC
\* of that day, today.setHours(0,0,0,0) is midnight local time of today
HoursFromToday(date, zone) == date[1] * HoursPerDay + zone

\* Math.ceil(a / b) for b > 0
CeilDiv(a, b) == 0 - ((0 - a) \div b)

\* Math.ceil((selectedDate - today) / (1000 * 60 * 60 * 24))
DaysUntilEvent(date, zone) == CeilDiv(HoursFromToday(date, zone), HoursPerDay)

\* selectedDate < today
DateInPast(date, zone) == HoursFromToday(date, zone) < 0

\* an advisory that clears isValid like a failed rule
AdvisoryInvalidates(v, cond, msg) == Fail(v, cond, msg)

\* if (daysUntilEvent < 7) { errors.push(...); }
AdviseDate(v, cond, msg) == Advise(v, cond, msg)

\* lines 173-180, on the values read at lines 165-171
CateringValidate(f, zone) ==
    LET name == TrimmedValue(f.name)
        email == TrimmedValue(f.email)
        phone == TrimmedValue(f.phone)
        guests == ParseGuests(f.guests)
        v1 == Fail(StartValidation, NameTooShort(name), ErrName)
        v2 == Fail(v1, ~EmailPatternTest(email), ErrEmail)
        v3 == Fail(v2, ~PhonePatternTest(phone), ErrCateringPhone)
        v4 == Fail(v3, f.eventType = "", ErrEventType)
        v5 == Fail(v4, GuestsInvalid(guests), ErrGuests)
    IN  IF f.date = <<>>
        THEN Fail(v5, TRUE, ErrNoDate)
        ELSE AdviseDate(Fail(v5, DateInPast(f.date, zone), ErrPastDate),
                        DaysUntilEvent(f.date, zone) < AdvanceDays,
                        AdviseAdvance)

\* lines 193-195
CostPerPerson(eventType) ==
    IF eventType = "wedding" THEN WeddingCost
    ELSE IF eventType = "corporate" THEN CorporateCost
    ELSE DefaultCost

\* guests + costPerPerson
TotalCostSum(guests, costPerPerson) == guests + costPerPerson

\* const totalCost = guests * costPerPerson
TotalCost(guests, costPerPerson) == guests * costPerPerson

\* lines 193-238: the quote and the options of the success notification
\* lines 199-201: new Date(date) is midnight UTC of the chosen day, and
\* toLocaleDateString names the local calendar day of that moment
LocalDay(date, zone) ==
    IF date = <<>> THEN date ELSE <<date[1] + (zone \div HoursPerDay)>>

CateringSuccessRequest(f, zone) ==
    LET guests == ParseGuests(f.guests)
        costPerPerson == CostPerPerson(f.eventType)
    IN  [title |-> CateringSuccessTitle, type |-> "success",
         duration |-> CateringDuration,
         message |-> [name |-> TrimmedValue(f.name),
                      eventType |-> f.eventType,
                      guests |-> guests,
                      date |-> LocalDay(f.date, zone),
                      costPerPerson |-> costPerPerson,
                      totalCost |-> TotalCost(guests, costPerPerson),
                      email |-> TrimmedValue(f.email),
                      phone |-> TrimmedValue(f.phone),
                      specialRequests |-> TrimmedValue(f.message) # <<>>]]

CateringInputs(field) ==
    CASE field = "name" -> CateringNameInputs
      [] field = "email" -> CateringEmailInputs
      [] field = "phone" -> CateringPhoneInputs
      [] field = "eventType" -> EventTypeInputs
      [] field = "guests" -> GuestsInputs
      [] field = "date" -> DateInputs
      [] field = "message" -> RequestInputs

\* the user edits one field of the catering form
CateringInput ==
    /\ page = "enquiry"
    /\ \E field \in DOMAIN catering : \E value \in CateringInputs(field) :
           /\ catering[field] # value
           /\ catering' = [catering EXCEPT ![field] = value]
    /\ last' = NoSubmit
    /\ lastRemoved' = NoRemoval
    /\ UNCHANGED <<page, contact, tz, href, created, clicked, notifs,
                   containers, domError, lastAuto>>
    /\ UNCHANGED galleryVars

\* the submit handler of .catering-form, lines 163-240
CateringSubmit ==
    /\ page = "enquiry"
    /\ created < MaxNotifs
    /\ LET v == CateringValidate(catering, tz)
       IN  IF ReturnsEarly(v.isValid)
           THEN /\ ShowNotification(ErrorRequest(v.errors))
                /\ last' = [form |-> "catering", isValid |-> v.isValid,
                            errors |-> v.errors, fields |-> catering,
                            request |-> ErrorRequest(v.errors),
                            guests |-> ParseGuests(catering.guests),
                            dispatched |-> FALSE, hrefBefore |-> href]
                /\ UNCHANGED catering
           ELSE /\ ShowNotification(CateringSuccessRequest(catering, tz))
                /\ catering' = CateringReset(catering)
                /\ last' = [form |-> "catering", isValid |-> v.isValid,
                            errors |-> v.errors, fields |-> catering,
                            request |-> CateringSuccessRequest(catering, tz),
                            guests |-> ParseGuests(catering.guests),
                            dispatched |-> FALSE, hrefBefore |-> href]
    /\ lastRemoved' = NoRemoval
    /\ UNCHANGED <<page, contact, tz, href, clicked, domError, lastAuto>>
    /\ UNCHANGED galleryVars

(***************************************************************************)
(* The page.  The site has the contact form on contact.html, the catering  *)
(* form on enquiry.html and the gallery images on gallery.html; the script *)
(* looks each of them up and wires what the page has.                      *)
(***************************************************************************)
Pages == {"contact", "enquiry", "gallery"}

\* how many images of class gallery-image a page can have
GalleryLengths == 0 .. MaxImages

\* document.querySelectorAll('.gallery-image').length on a page
GalleryLengthsOf(p) == IF p = "gallery" THEN GalleryLengths ELSE {0}

\* the lightbox element: the value of its style.display and the index of the
\* image in lightboxImg, "absent" and -1 when there is none
NoLightbox == [display |-> "absent", src |-> 0 - 1]

\* lines 256-265: the lightbox is created when the page has gallery images;
\* its style.display is not set and its image has no src
NewLightbox(length) ==
    IF length > 0 THEN [display |-> "", src |-> 0 - 1] ELSE NoLightbox

Init ==
    /\ page \in Pages
    /\ contact = ContactDefaults
    /\ catering = CateringDefaults
    /\ tz \in TimeZones
    /\ href = PageHref
    /\ last = NoSubmit
    /\ created = 0
    /\ clicked = 0
    /\ notifs = <<>>
    /\ containers = 0
    /\ domError = FALSE
    /\ lastRemoved = NoRemoval
    /\ lastAuto = "none"
    /\ galleryLength \in GalleryLengthsOf(page)
    /\ currentImageIndex = 0
    /\ lightbox = NewLightbox(galleryLength)
    /\ overflow = ""
    /\ lastNav = <<>>

\* a page of the site is loaded or reloaded, at any time: a new document
\* with the images the page has then, and the script runs again
PageLoad ==
    /\ page' \in Pages
    /\ contact' = ContactDefaults
    /\ catering' = CateringDefaults
    /\ href' = PageHref
    /\ last' = NoSubmit
    /\ created' = 0
    /\ clicked' = 0
    /\ notifs' = <<>>
    /\ containers' = 0
    /\ domError' = FALSE
    /\ lastRemoved' = NoRemoval
    /\ lastAuto' = "none"
    /\ galleryLength' \in GalleryLengthsOf(page')
    /\ currentImageIndex' = 0
    /\ lightbox' = NewLightbox(galleryLength')
    /\ overflow' = ""
    /\ lastNav' = <<>>
    /\ UNCHANGED tz

Next ==
    \/ ContactInput
    \/ ContactSubmit
    \/ CateringInput
    \/ CateringSubmit
    \/ PageLoad

Spec == Init /\ [][Next]_vars

(***************************************************************************)
(* The notifications in time.  age is the time since the notification was  *)
(* created, in milliseconds; the auto-dismiss timer is due when age        *)
(* reaches duration; removals holds, for every removal timer scheduled by  *)
(* the close handler and not yet fired, the time left until it fires.      *)
(***************************************************************************)
Durations == {0, DefaultDuration}

\* the options of the direct calls of showNotification
OptionInputs ==
    [type : NotificationTypes, duration : Durations]
        \cup [type : NotificationTypes] \cup [duration : Durations]

\* the notification is still referenced: it is in the document, or one of
\* its callbacks is still to run
Referenced(n) == n.inDOM \/ n.raf \/ n.auto \/ n.removals # <<>>

Compact(ns) == SelectSeq(ns, Referenced)

Min(a, b) == IF a <= b THEN a ELSE b

\* the times left until the timers of n fire
TimersOf(n) ==
    (IF n.auto THEN {n.duration - n.age} ELSE {})
        \cup {n.removals[k] : k \in DOMAIN n.removals}

PendingTimes == UNION {TimersOf(notifs[i]) : i \in DOMAIN notifs}

NextDue == CHOOSE t \in PendingTimes : \A u \in PendingTimes : t <= u

\* a call of showNotification from elsewhere in the page
Show ==
    /\ created < MaxNotifs
    /\ \E options \in OptionInputs : ShowNotification(options)
    /\ lastRemoved' = NoRemoval
    /\ domError' = FALSE
    /\ lastAuto' = "none"
    /\ UNCHANGED <<page, contact, catering, tz, href, last, clicked>>
    /\ UNCHANGED galleryVars

\* requestAnimationFrame(() => notification.classList.add('show')): the
\* document is rendered, and every callback requested since the last frame
\* runs
AnimationFrame ==
    /\ \E i \in DOMAIN notifs : notifs[i].raf
    /\ notifs' = Compact([i \in DOMAIN notifs |->
                              IF notifs[i].raf
                              THEN [notifs[i] EXCEPT !.raf = FALSE,
                                                     !.show = TRUE]
                              ELSE notifs[i]])
    /\ lastRemoved' = NoRemoval
    /\ domError' = FALSE
    /\ lastAuto' = "none"
    /\ UNCHANGED <<page, contact, catering, tz, href, last, created, clicked,
                   containers>>
    /\ UNCHANGED galleryVars

\* a close handler that removes the notification with no delay
CloseNoGrace(n) ==
    [n EXCEPT !.show = FALSE, !.removals = Append(@, 0)]

\* the click listener of the close button, lines 70-78: the removal is
\* scheduled 300 ms later
CloseHandler(n) ==
    [n EXCEPT !.show = FALSE, !.removals = Append(@, ExitGrace)]

\* the user clicks the close button of a notification of the document
CloseClick ==
    /\ clicked < MaxClicks
    /\ \E i \in DOMAIN notifs :
           /\ notifs[i].inDOM
           /\ notifs' = [notifs EXCEPT
                             ![i] = [CloseHandler(@) EXCEPT !.clicks = @ + 1]]
    /\ clicked' = clicked + 1
    /\ lastRemoved' = NoRemoval
    /\ domError' = FALSE
    /\ lastAuto' = "none"
    /\ UNCHANGED <<page, contact, catering, tz, href, last, created,
                   containers>>
    /\ UNCHANGED galleryVars

\* an auto-dismiss timer that clicks without looking at parentNode
AutoClicksAlways(n) == TRUE

\* if (notification.parentNode) closeBtn.click()
AutoClicks(n) == n.inDOM

\* the auto-dismiss timer fires, lines 87-91
AutoDismiss ==
    /\ \E i \in DOMAIN notifs :
           /\ notifs[i].auto
           /\ notifs[i].age >= notifs[i].duration
           /\ LET n == [notifs[i] EXCEPT !.auto = FALSE]
              IN  /\ notifs' = Compact([notifs EXCEPT
                                   ![i] = IF AutoClicks(n) THEN CloseHandler(n)
                                          ELSE n])
                  /\ lastAuto' = IF notifs[i].inDOM THEN "attached"
                                 ELSE "detached"
    /\ lastRemoved' = NoRemoval
    /\ domError' = FALSE
    /\ UNCHANGED <<page, contact, catering, tz, href, last, created, clicked,
                   containers>>
    /\ UNCHANGED galleryVars

\* container.children.length === 0, after the removal of notification i
ContainerEmptyWithout(i) ==
    \A j \in DOMAIN notifs : j # i => ~notifs[j].inDOM

\* a removal timer fires, lines 72-77: removeChild throws NotFoundError when
\* the notification is not a child of the container
Removal ==
    /\ \E i \in DOMAIN notifs :
           /\ notifs[i].removals # <<>>
           /\ Head(notifs[i].removals) = 0
           /\ LET n == [notifs[i] EXCEPT !.removals = Tail(@)]
              IN  IF n.inDOM
                  THEN /\ notifs' = Compact([notifs EXCEPT
                                                 ![i] = [n EXCEPT !.inDOM = FALSE]])
                       /\ containers' =
                              IF ContainerEmptyWithout(i) THEN containers - 1
                              ELSE containers
                       /\ lastRemoved' = [type |-> n.type,
                                          duration |-> n.duration,
                                          age |-> n.age, clicks |-> n.clicks]
                       /\ domError' = FALSE
                  ELSE /\ notifs' = Compact([notifs EXCEPT ![i] = n])
                       /\ domError' = TRUE
                       /\ lastRemoved' = NoRemoval
                       /\ UNCHANGED containers
    /\ lastAuto' = "none"
    /\ UNCHANGED <<page, contact, catering, tz, href, last, created, clicked>>
    /\ UNCHANGED galleryVars

\* a notification whose timers have all fired keeps an age of at most MaxAge
Older(n, d) ==
    [n EXCEPT !.age = IF TimersOf(n) = {} THEN Min(@ + d, MaxAge) ELSE @ + d,
              !.removals = [k \in DOMAIN @ |-> @[k] - d]]

\* time passes, up to the moment the next timer is due; a timer that is due
\* runs first.  A requested animation frame waits for the next rendering of
\* the document, however long that takes.
Tick ==
    /\ 0 \notin PendingTimes
    /\ LET d == IF PendingTimes = {} THEN TickStep
                ELSE Min(TickStep, NextDue)
       IN  /\ notifs' = [i \in DOMAIN notifs |-> Older(notifs[i], d)]
           /\ notifs' # notifs
    /\ lastRemoved' = NoRemoval
    /\ domError' = FALSE
    /\ lastAuto' = "none"
    /\ UNCHANGED <<page, contact, catering, tz, href, last, created, clicked,
                   containers>>
    /\ UNCHANGED galleryVars

NotifierNext ==
    Show \/ AnimationFrame \/ CloseClick \/ AutoDismiss \/ Removal \/ Tick

NotifierInit == Init /\ tz = 0 /\ page = "contact"

SpecNotifier == NotifierInit /\ [][NotifierNext]_vars

(***************************************************************************)
(* The gallery lightbox, lines 255-280.  The page has galleryLength images *)
(* of class gallery-image; the lightbox and its handlers exist when there  *)
(* is at least one.  A handler runs whenever its event is dispatched,      *)
(* whether the lightbox is displayed or not.                               *)
(***************************************************************************)
Keys == {"ArrowLeft", "ArrowRight", "Escape", "Enter"}

\* the operation that ran and the index it found, the two most recent kept
Remember(op) ==
    LET h == Append(lastNav, [op |-> op, from |-> currentImageIndex])
    IN  IF Len(h) > 2 THEN Tail(h) ELSE h

\* lightboxImg.src = imagesArray[index].src
showLightboxImage(index) == [lightbox EXCEPT !.src = index]

\* a previous handler that does not wrap
PrevNoWrap(index, length) == index - 1

\* (currentImageIndex - 1 + imagesArray.length) % imagesArray.length
PrevIndex(index, length) == (index - 1 + length) % length

\* (currentImageIndex + 1) % imagesArray.length
NextIndex(index, length) == (index + 1) % length

\* lightbox.style.display = 'none'; document.body.style.overflow = 'auto'
CloseLightbox ==
    /\ lightbox' = [lightbox EXCEPT !.display = "none"]
    /\ overflow' = "auto"
    /\ lastNav' = Remember("close")
    /\ UNCHANGED <<galleryLength, currentImageIndex>>

\* prevBtn's click listener, line 277
PrevHandler ==
    /\ currentImageIndex' = PrevIndex(currentImageIndex, galleryLength)
    /\ lightbox' = showLightboxImage(currentImageIndex')
    /\ lastNav' = Remember("previous")
    /\ UNCHANGED <<galleryLength, overflow>>

\* nextBtn's click listener, line 278
NextHandler ==
    /\ currentImageIndex' = NextIndex(currentImageIndex, galleryLength)
    /\ lightbox' = showLightboxImage(currentImageIndex')
    /\ lastNav' = Remember("next")
    /\ UNCHANGED <<galleryLength, overflow>>

notifierVars ==
    <<page, contact, catering, tz, href, last, created, clicked, notifs,
      containers, domError, lastRemoved, lastAuto>>

\* the user clicks a gallery image, line 274
ImageClick ==
    /\ \E index \in 0 .. galleryLength - 1 :
           /\ currentImageIndex' = index
           /\ lightbox' = [showLightboxImage(index) EXCEPT !.display = "flex"]
    /\ overflow' = "hidden"
    /\ lastNav' = Remember("open")
    /\ UNCHANGED galleryLength
    /\ UNCHANGED notifierVars

\* the close button is clicked, line 275
CloseClickLightbox ==
    /\ galleryLength > 0
    /\ CloseLightbox
    /\ UNCHANGED notifierVars

\* the lightbox itself, outside its content, is clicked, line 276
BackdropClick ==
    /\ galleryLength > 0
    /\ CloseLightbox
    /\ UNCHANGED notifierVars

PrevClick ==
    /\ galleryLength > 0
    /\ PrevHandler
    /\ UNCHANGED notifierVars

NextClick ==
    /\ galleryLength > 0
    /\ NextHandler
    /\ UNCHANGED notifierVars

\* the keydown listener of the document, line 279: a key that changes
\* something
KeyDown ==
    /\ galleryLength > 0
    /\ lightbox.display = "flex"
    /\ \E key \in Keys :
           CASE key = "ArrowLeft" -> PrevHandler
             [] key = "ArrowRight" -> NextHandler
             [] key = "Escape" -> CloseLightbox
             [] OTHER -> FALSE
    /\ UNCHANGED notifierVars

\* the gallery page after the script has run
GalleryInit == Init /\ tz = 0 /\ page = "gallery"

GalleryNext ==
    \/ ImageClick
    \/ CloseClickLightbox
    \/ BackdropClick
    \/ PrevClick
    \/ NextClick
    \/ KeyDown
    \/ PageLoad

SpecGallery == GalleryInit /\ [][GalleryNext]_vars

(***************************************************************************)
(* Properties.                                                             *)
(***************************************************************************)
Range(seq) == {seq[k] : k \in DOMAIN seq}

C1_Fields(f) ==
    /\ f.name = NameJo
    /\ f.email = EmailBad
    /\ f.phone = Empty
    /\ f.subject = ""
    /\ f.message = MessageHi

\* C1 as stated: the contact form submitted with name "Jo", email "bad", no
\* phone, no subject and message "hi" is invalid and its error list holds
\* exactly four messages, for name, email, subject and message.
C1_FourMessages ==
    (last.form = "contact" /\ C1_Fields(last.fields)) =>
        /\ ~last.isValid
        /\ last.request.list = <<ErrName, ErrEmail, ErrSubject, ErrMessage>>

\* C1 amended: that submission is invalid and the error list handed to the
\* notifier holds exactly three messages, for email, subject and message;
\* "Jo" has two characters and passes the name rule.
C1_ThreeMessages ==
    (last.form = "contact" /\ C1_Fields(last.fields)) =>
        /\ ~last.isValid
        /\ last.request.type = "error"
        /\ last.request.list = <<ErrEmail, ErrSubject, ErrMessage>>

C1_Submitted ==
    /\ last.form = "contact"
    /\ C1_Fields(last.fields)
    /\ Len(notifs) > 0
    /\ notifs[Len(notifs)].type = "error"

\* C2 as stated: where a submit handler branches on the validation result,
\* isValid is true exactly when the errors list is empty.
C2_ValidIffNoErrors ==
    last.form # "none" => (last.isValid <=> last.errors = <<>>)

\* C2 amended: isValid is true exactly when the errors list holds no message
\* other than the 7-day booking advisory of the catering form; on the
\* contact form, which has no advisory, exactly when the list is empty.
C2_ValidIffOnlyAdvisory ==
    /\ last.form # "none" =>
           (last.isValid <=> \A k \in DOMAIN last.errors :
                                 last.errors[k] = AdviseAdvance)
    /\ last.form = "contact" => (last.isValid <=> last.errors = <<>>)

C2_ValidWithAdvisory ==
    /\ last.form = "catering"
    /\ last.isValid
    /\ last.errors = <<AdviseAdvance>>

\* C3: a notification of type 'error' is never removed by an auto-dismiss
\* timer, whatever its duration and however long the wait: until its close
\* button is clicked it is in the document, with no auto-dismiss timer and
\* no removal scheduled, and an error notification that leaves the document
\* has been clicked.
C3_ErrorNeverAutoDismissed ==
    /\ \A i \in DOMAIN notifs :
           (notifs[i].type = "error" /\ notifs[i].clicks = 0) =>
               /\ notifs[i].inDOM
               /\ ~notifs[i].auto
               /\ notifs[i].removals = <<>>
    /\ lastRemoved.type = "error" => lastRemoved.clicks > 0

C3_ErrorOutlivesDuration ==
    \E i \in DOMAIN notifs :
        /\ notifs[i].type = "error"
        /\ notifs[i].duration > 0
        /\ notifs[i].clicks = 0
        /\ notifs[i].inDOM
        /\ notifs[i].age >= notifs[i].duration + ExitGrace

\* C4: a notification of another type than 'error' with duration d > 0 that
\* is never clicked stays in the document until d ms after its creation
\* with no removal under way, is still in the document no later than
\* d + 300 ms, when its removal is due, and leaves the document exactly
\* d + 300 ms after its creation.
C4_AutoDismissedOnTime ==
    /\ \A i \in DOMAIN notifs :
           (/\ notifs[i].type # "error"
            /\ notifs[i].duration > 0
            /\ notifs[i].clicks = 0) =>
               /\ notifs[i].age < notifs[i].duration + 300 => notifs[i].inDOM
               /\ notifs[i].inDOM =>
                      notifs[i].age <= notifs[i].duration + 300
               /\ notifs[i].age < notifs[i].duration =>
                      notifs[i].auto /\ notifs[i].removals = <<>>
               /\ (notifs[i].inDOM
                      /\ notifs[i].age = notifs[i].duration + 300) =>
                      notifs[i].removals = <<0>>
    /\ (/\ lastRemoved.type # "error"
        /\ lastRemoved.type # "none"
        /\ lastRemoved.duration > 0
        /\ lastRemoved.clicks = 0) =>
           lastRemoved.age = lastRemoved.duration + 300

C4_SuccessRemovedAt5300 ==
    /\ lastRemoved.type = "success"
    /\ lastRemoved.duration = 5000
    /\ lastRemoved.clicks = 0
    /\ lastRemoved.age = 5300

\* C5 as stated: a notification whose duration is 0 persists until the user
\* dismisses it, for every type: until its close button is clicked it is in
\* the document with no removal scheduled, and one that leaves the document
\* has been clicked.
C5_ZeroDurationPersists ==
    /\ \A i \in DOMAIN notifs :
           (notifs[i].duration = 0 /\ notifs[i].clicks = 0) =>
               notifs[i].inDOM /\ notifs[i].removals = <<>>
    /\ (lastRemoved.type # "none" /\ lastRemoved.duration = 0) =>
           lastRemoved.clicks > 0

\* C6: for every valid catering submission costPerPerson is 250 for a
\* wedding, 180 for a corporate event and 150 for any other event type, and
\* totalCost is guests * costPerPerson: 25000 for a wedding of 100 guests.
C6_QuoteByTier ==
    (last.form = "catering" /\ last.isValid) =>
        LET m == last.request.message
        IN  /\ m.eventType = "wedding" => m.costPerPerson = 250
            /\ m.eventType = "corporate" => m.costPerPerson = 180
            /\ m.eventType \notin {"wedding", "corporate"} =>
                   m.costPerPerson = 150
            /\ m.guests = last.guests
            /\ m.totalCost = last.guests * m.costPerPerson
            /\ (m.eventType = "wedding" /\ last.fields.guests = Guests100) =>
                   m.totalCost = 25000

C6_WeddingOf100 ==
    /\ last.form = "catering"
    /\ last.isValid
    /\ last.fields.name = NameAnna
    /\ last.fields.email = EmailGood
    /\ last.fields.phone = PhoneGood
    /\ last.fields.eventType = "wedding"
    /\ last.fields.guests = Guests100
    /\ last.fields.date = <<30>>
    /\ last.request.message.costPerPerson = 250
    /\ last.request.message.totalCost = 25000

\* C7: in the catering form the guest-count rule fails, and the submission
\* is invalid with the guest-count message, when guests < 10 or guests > 500
\* (0 standing for an input that does not parse), whatever the other fields
\* hold, and adds no message when 10 <= guests <= 500.
C7_GuestRange ==
    last.form = "catering" =>
        /\ (last.guests < 10 \/ last.guests > 500) =>
               ~last.isValid /\ ErrGuests \in Range(last.errors)
        /\ (10 <= last.guests /\ last.guests <= 500) =>
               ErrGuests \notin Range(last.errors)
        /\ last.fields.guests \in {Empty, GuestsWord} => last.guests = 0
        /\ last.fields.guests = Guests5 => last.guests = 5
        /\ last.fields.guests = Guests501 => last.guests = 501
        /\ last.fields.guests = Guests500 => last.guests = 500
        /\ last.fields.guests = Guests10 => last.guests = 10

C7_FiveGuestsOnly ==
    /\ last.form = "catering"
    /\ last.fields.guests = Guests5
    /\ ~last.isValid
    /\ last.errors = <<ErrGuests>>
    /\ last.request.list = <<ErrGuests>>

\* C8: a submission of the contact form or of the catering form whose
\* trimmed name is shorter than 2 characters reports the name message and
\* neither composes nor dispatches: window.location.href keeps the value it
\* had when the handler started and the notification shown is the error
\* notification, not a success.
C8_ShortNameNotDispatched ==
    (last.form # "none" /\ Len(Trim(last.fields.name)) < 2) =>
        /\ ErrName \in Range(last.errors)
        /\ ~last.isValid
        /\ ~last.dispatched
        /\ href = last.hrefBefore
        /\ notifs[Len(notifs)].type = "error"
        /\ last.request.type = "error"
        /\ last.request.list = last.errors

C8_OnlyNameShort ==
    /\ last.form = "contact"
    /\ last.fields.name = NamePaddedJ
    /\ last.errors = <<ErrName>>
    /\ href = PageHref

\* C9: a submission that fails validation leaves every field of its form as
\* it was submitted, and a submission that passes validation ends with
\* every field of its form empty, for both forms and over any sequence of
\* submissions.
C9_FormKeptOrCleared ==
    /\ last.form = "contact" =>
           IF last.isValid
           THEN contact = [name |-> <<>>, email |-> <<>>, phone |-> <<>>,
                           location |-> "", subject |-> "", message |-> <<>>]
           ELSE contact = last.fields
    /\ last.form = "catering" =>
           IF last.isValid
           THEN catering = [name |-> <<>>, email |-> <<>>, phone |-> <<>>,
                            eventType |-> "", guests |-> <<>>, date |-> <<>>,
                            message |-> <<>>]
           ELSE catering = last.fields

C9_FailedThenResubmitted ==
    /\ Len(notifs) = 2
    /\ notifs[1].type = "error"
    /\ notifs[2].type = "success"
    /\ last.form = "contact"
    /\ last.isValid
    /\ last.fields.name = NameJo
    /\ contact.name = <<>>
    /\ contact.message = <<>>

\* the inputs of the model that violate each rule of the contact form
C10_Violated(f) ==
    [name |-> f.name \in {Empty, NamePaddedJ},
     email |-> f.email \in {Empty, EmailBad, EmailNoDot},
     phone |-> f.phone = PhoneShort,
     subject |-> f.subject = "",
     message |-> f.message \in {Empty, MessageHi, MessagePaddedHi}]

C10_Expected(f) ==
    LET bad == C10_Violated(f)
    IN  (IF bad.name THEN <<ErrName>> ELSE <<>>)
            \o (IF bad.email THEN <<ErrEmail>> ELSE <<>>)
            \o (IF bad.phone THEN <<ErrContactPhone>> ELSE <<>>)
            \o (IF bad.subject THEN <<ErrSubject>> ELSE <<>>)
            \o (IF bad.message THEN <<ErrMessage>> ELSE <<>>)

\* C10: contact validation checks every rule: the error list holds exactly
\* one message for each violated rule among name, email, phone (an empty
\* phone never yields a message), subject and message, in that order, and
\* no other message.
C10_AllRulesCollected ==
    last.form = "contact" =>
        /\ last.errors = C10_Expected(last.fields)
        /\ last.fields.phone = Empty => ErrContactPhone \notin Range(last.errors)

C10_AllFiveViolated ==
    /\ last.form = "contact"
    /\ last.errors =
           <<ErrName, ErrEmail, ErrContactPhone, ErrSubject, ErrMessage>>
    /\ last.request.list = last.errors

\* C11: the notification container is created on first use and torn down
\* when empty: in every reachable state the document has at most one
\* container, and it has one if and only if at least one notification is
\* attached
C11_ContainerIffOccupied ==
    /\ containers <= 1
    /\ (containers = 1) <=> (\E i \in DOMAIN notifs : notifs[i].inDOM)

\* the removal of the last attached notification has just torn down the
\* container that two notifications had used
C11_ContainerTornDown ==
    /\ lastRemoved # NoRemoval
    /\ containers = 0
    /\ created > 1

\* C12 as stated: a catering submission with a date fewer than 7 days after
\* today has the advisory in its list, and a submission whose list holds the
\* advisory only takes the success path: the quote is computed, the success
\* notification is requested without the advisory, and the form is cleared
C12_ShortNoticeAdvised ==
    last.form = "catering" =>
        /\ (last.fields.date # <<>> /\ last.fields.date[1] < AdvanceDays)
               => AdviseAdvance \in Range(last.errors)
        /\ last.errors = <<AdviseAdvance>> =>
               /\ last.isValid
               /\ last.request = CateringSuccessRequest(last.fields, tz)
               /\ last.request.message.totalCost =
                      last.guests * CostPerPerson(last.fields.eventType)
               /\ "list" \notin DOMAIN last.request
               /\ catering = CateringDefaults

\* C13: the auto-dismiss timer of a notification that is no longer in the
\* document does nothing: the step that runs it consumes the timer and
\* leaves everything else as it was, with no removal scheduled
C13_DetachedTimerNoOp ==
    [][lastAuto' = "detached" =>
           /\ \E i \in DOMAIN notifs :
                  /\ ~notifs[i].inDOM
                  /\ notifs[i].auto
                  /\ notifs' = Compact([notifs EXCEPT ![i].auto = FALSE])
           /\ ~domError'
           /\ UNCHANGED <<page, contact, catering, tz, href, last, created,
                          clicked, containers>>
           /\ UNCHANGED galleryVars]_vars

\* the auto-dismiss timer of a notification the user had dismissed has just
\* fired
C13_TimerFiredOnDetached ==
    /\ lastAuto = "detached"
    /\ clicked > 0

\* C14 as stated: removeChild is never attempted on a notification that is
\* no longer a child of the container
C14_DetachAtMostOnce == ~domError

\* C15: the lightbox navigates in a circle over the gallery images: the
\* index stays within 0..n-1, next from n-1 gives 0, previous from 0 gives
\* n-1, and next then previous, or previous then next, comes back to the
\* index it started from
C15_CircularNavigation ==
    galleryLength >= 1 =>
        /\ currentImageIndex \in 0 .. galleryLength - 1
        /\ lastNav # <<>> =>
               LET nav == lastNav[Len(lastNav)]
               IN  /\ (nav.op = "next" /\ nav.from = galleryLength - 1)
                          => currentImageIndex = 0
                   /\ (nav.op = "previous" /\ nav.from = 0)
                          => currentImageIndex = galleryLength - 1
        /\ (/\ Len(lastNav) = 2
            /\ {lastNav[1].op, lastNav[2].op} = {"next", "previous"})
               => currentImageIndex = lastNav[1].from

\* next from the last of several images and then previous from the first:
\* the lightbox is back on the last image
C15_WrappedBothWays ==
    /\ galleryLength > 1
    /\ Len(lastNav) = 2
    /\ lastNav[1] = [op |-> "next", from |-> galleryLength - 1]
    /\ lastNav[2] = [op |-> "previous", from |-> 0]
    /\ currentImageIndex = galleryLength - 1
====
